---- MODULE Spec2Model ----
(***************************************************************************)
(* A model of hkopenai/hk_election_mcp_server/tools/gc_registered_electors *)
(* (the registered-electors tool): the CSV row parser _parse_csv_data, the *)
(* per-year fetcher _try_fetch_year_data, the range aggregator             *)
(* _fetch_gc_registered_electors_data and its wrapper                      *)
(* _get_gc_registered_electors.                                            *)
(*                                                                         *)
(* Three specifications share the module:                                  *)
(*   SpecParser   the parser's loop over the rows of one resource;         *)
(*   SpecFetcher  the fetcher's loop over the two URLs of one year;        *)
(*   Spec         one call of get_gc_registered_electors, every fetch of   *)
(*                which runs the fetcher and the parser on the responses   *)
(*                the remote site gives.                                   *)
(*                                                                         *)
(* A Python str is a sequence of one-character strings; a dict is modelled *)
(* by the sequence of its values in key order (the parser reads the values *)
(* of the first two keys only); a Dict[int, int] is a function whose       *)
(* domain is a finite set of integers.                                     *)
(***************************************************************************)
EXTENDS Integers, Sequences, FiniteSets, TLC

VARIABLES
    \* ---- one call of get_gc_registered_electors (Spec)
    pc,            \* "idle", "loop", "fallback", "advance", "done", "raised"
    start_year,
    end_year,
    current_year,
    data_dict,     \* the accumulating dataset: year -> count
    offset_idx,    \* position in the offsets list [-1, 1, -2, 2]
    result,        \* the dict the tool returns
    exc,           \* the exception that left the tool, "" if none
    calls,         \* the fetcher invocations of the current iteration of the loop, in order
    hist,          \* history of the call: what the fetches returned (see HistInit)
    \* ---- one call of _try_fetch_year_data (SpecFetcher)
    f_pc,          \* "loop", "returned", "raised"
    f_year,
    f_i,           \* index of the next URL to request
    f_requests,    \* the URLs requested so far, in order
    f_responses,   \* what fetch_csv_from_url returned for each
    f_result,
    \* ---- one call of _parse_csv_data (SpecParser)
    p_pc,          \* "loop", "returned", "raised"
    p_data,        \* the rows handed to the parser
    p_i,           \* index of the next row
    p_result       \* the mapping built so far

aggVars == <<pc, start_year, end_year, current_year, data_dict, offset_idx,
             result, exc, calls, hist>>
fetVars == <<f_pc, f_year, f_i, f_requests, f_responses, f_result>>
parVars == <<p_pc, p_data, p_i, p_result>>
vars == <<aggVars, fetVars, parVars>>

-----------------------------------------------------------------------------
(* Python strings and int()                                                *)

\* A character is a one-character string; a character that a string of the
\* module cannot hold is written "U+" and its code point in hexadecimal
\* ("U+FF11" is the fullwidth digit one).

Digits == <<"0", "1", "2", "3", "4", "5", "6", "7", "8", "9">>

\* The decimal digits of the other scripts (Unicode category Nd), which int()
\* accepts as it accepts "0".."9": one row a script, the digits 0 to 9 in order.
UnicodeDigits ==
    <<<<"U+0660", "U+0661", "U+0662", "U+0663", "U+0664", "U+0665", "U+0666", "U+0667", "U+0668", "U+0669">>,
      <<"۰", "۱", "۲", "۳", "۴", "۵", "۶", "۷", "۸", "۹">>,
      <<"߀", "߁", "߂", "߃", "߄", "߅", "߆", "߇", "߈", "߉">>,
      <<"U+0966", "U+0967", "U+0968", "U+0969", "U+096A", "U+096B", "U+096C", "U+096D", "U+096E", "U+096F">>,
      <<"০", "১", "২", "৩", "৪", "৫", "৬", "৭", "৮", "৯">>,
      <<"U+0A66", "U+0A67", "U+0A68", "U+0A69", "U+0A6A", "U+0A6B", "U+0A6C", "U+0A6D", "U+0A6E", "U+0A6F">>,
      <<"૦", "૧", "૨", "૩", "૪", "૫", "૬", "૭", "૮", "૯">>,
      <<"U+0B66", "U+0B67", "U+0B68", "U+0B69", "U+0B6A", "U+0B6B", "U+0B6C", "U+0B6D", "U+0B6E", "U+0B6F">>,
      <<"௦", "௧", "௨", "௩", "௪", "௫", "௬", "௭", "௮", "௯">>,
      <<"U+0C66", "U+0C67", "U+0C68", "U+0C69", "U+0C6A", "U+0C6B", "U+0C6C", "U+0C6D", "U+0C6E", "U+0C6F">>,
      <<"೦", "೧", "೨", "೩", "೪", "೫", "೬", "೭", "೮", "೯">>,
      <<"U+0D66", "U+0D67", "U+0D68", "U+0D69", "U+0D6A", "U+0D6B", "U+0D6C", "U+0D6D", "U+0D6E", "U+0D6F">>,
      <<"෦", "෧", "෨", "෩", "෪", "෫", "෬", "෭", "෮", "෯">>,
      <<"U+0E50", "U+0E51", "U+0E52", "U+0E53", "U+0E54", "U+0E55", "U+0E56", "U+0E57", "U+0E58", "U+0E59">>,
      <<"໐", "໑", "໒", "໓", "໔", "໕", "໖", "໗", "໘", "໙">>,
      <<"U+0F20", "U+0F21", "U+0F22", "U+0F23", "U+0F24", "U+0F25", "U+0F26", "U+0F27", "U+0F28", "U+0F29">>,
      <<"U+1040", "U+1041", "U+1042", "U+1043", "U+1044", "U+1045", "U+1046", "U+1047", "U+1048", "U+1049">>,
      <<"႐", "႑", "႒", "႓", "႔", "႕", "႖", "႗", "႘", "႙">>,
      <<"០", "១", "២", "៣", "៤", "៥", "៦", "៧", "៨", "៩">>,
      <<"U+1810", "U+1811", "U+1812", "U+1813", "U+1814", "U+1815", "U+1816", "U+1817", "U+1818", "U+1819">>,
      <<"U+1946", "U+1947", "U+1948", "U+1949", "U+194A", "U+194B", "U+194C", "U+194D", "U+194E", "U+194F">>,
      <<"᧐", "᧑", "᧒", "᧓", "᧔", "᧕", "᧖", "᧗", "᧘", "᧙">>,
      <<"᪀", "᪁", "᪂", "᪃", "᪄", "᪅", "᪆", "᪇", "᪈", "᪉">>,
      <<"᪐", "᪑", "᪒", "᪓", "᪔", "᪕", "᪖", "᪗", "᪘", "᪙">>,
      <<"U+1B50", "U+1B51", "U+1B52", "U+1B53", "U+1B54", "U+1B55", "U+1B56", "U+1B57", "U+1B58", "U+1B59">>,
      <<"᮰", "᮱", "᮲", "᮳", "᮴", "᮵", "᮶", "᮷", "᮸", "᮹">>,
      <<"U+1C40", "U+1C41", "U+1C42", "U+1C43", "U+1C44", "U+1C45", "U+1C46", "U+1C47", "U+1C48", "U+1C49">>,
      <<"U+1C50", "U+1C51", "U+1C52", "U+1C53", "U+1C54", "U+1C55", "U+1C56", "U+1C57", "U+1C58", "U+1C59">>,
      <<"U+A620", "U+A621", "U+A622", "U+A623", "U+A624", "U+A625", "U+A626", "U+A627", "U+A628", "U+A629">>,
      <<"꣐", "꣑", "꣒", "꣓", "꣔", "꣕", "꣖", "꣗", "꣘", "꣙">>,
      <<"U+A900", "U+A901", "U+A902", "U+A903", "U+A904", "U+A905", "U+A906", "U+A907", "U+A908", "U+A909">>,
      <<"꧐", "꧑", "꧒", "꧓", "꧔", "꧕", "꧖", "꧗", "꧘", "꧙">>,
      <<"꧰", "꧱", "꧲", "꧳", "꧴", "꧵", "꧶", "꧷", "꧸", "꧹">>,
      <<"U+AA50", "U+AA51", "U+AA52", "U+AA53", "U+AA54", "U+AA55", "U+AA56", "U+AA57", "U+AA58", "U+AA59">>,
      <<"꯰", "꯱", "꯲", "꯳", "꯴", "꯵", "꯶", "꯷", "꯸", "꯹">>,
      <<"U+FF10", "U+FF11", "U+FF12", "U+FF13", "U+FF14", "U+FF15", "U+FF16", "U+FF17", "U+FF18", "U+FF19">>,
      <<"U+104A0", "U+104A1", "U+104A2", "U+104A3", "U+104A4", "U+104A5", "U+104A6", "U+104A7", "U+104A8", "U+104A9">>,
      <<"U+10D30", "U+10D31", "U+10D32", "U+10D33", "U+10D34", "U+10D35", "U+10D36", "U+10D37", "U+10D38", "U+10D39">>,
      <<"U+11066", "U+11067", "U+11068", "U+11069", "U+1106A", "U+1106B", "U+1106C", "U+1106D", "U+1106E", "U+1106F">>,
      <<"U+110F0", "U+110F1", "U+110F2", "U+110F3", "U+110F4", "U+110F5", "U+110F6", "U+110F7", "U+110F8", "U+110F9">>,
      <<"U+11136", "U+11137", "U+11138", "U+11139", "U+1113A", "U+1113B", "U+1113C", "U+1113D", "U+1113E", "U+1113F">>,
      <<"U+111D0", "U+111D1", "U+111D2", "U+111D3", "U+111D4", "U+111D5", "U+111D6", "U+111D7", "U+111D8", "U+111D9">>,
      <<"U+112F0", "U+112F1", "U+112F2", "U+112F3", "U+112F4", "U+112F5", "U+112F6", "U+112F7", "U+112F8", "U+112F9">>,
      <<"U+11450", "U+11451", "U+11452", "U+11453", "U+11454", "U+11455", "U+11456", "U+11457", "U+11458", "U+11459">>,
      <<"U+114D0", "U+114D1", "U+114D2", "U+114D3", "U+114D4", "U+114D5", "U+114D6", "U+114D7", "U+114D8", "U+114D9">>,
      <<"U+11650", "U+11651", "U+11652", "U+11653", "U+11654", "U+11655", "U+11656", "U+11657", "U+11658", "U+11659">>,
      <<"U+116C0", "U+116C1", "U+116C2", "U+116C3", "U+116C4", "U+116C5", "U+116C6", "U+116C7", "U+116C8", "U+116C9">>,
      <<"U+11730", "U+11731", "U+11732", "U+11733", "U+11734", "U+11735", "U+11736", "U+11737", "U+11738", "U+11739">>,
      <<"U+118E0", "U+118E1", "U+118E2", "U+118E3", "U+118E4", "U+118E5", "U+118E6", "U+118E7", "U+118E8", "U+118E9">>,
      <<"U+11950", "U+11951", "U+11952", "U+11953", "U+11954", "U+11955", "U+11956", "U+11957", "U+11958", "U+11959">>,
      <<"U+11C50", "U+11C51", "U+11C52", "U+11C53", "U+11C54", "U+11C55", "U+11C56", "U+11C57", "U+11C58", "U+11C59">>,
      <<"U+11D50", "U+11D51", "U+11D52", "U+11D53", "U+11D54", "U+11D55", "U+11D56", "U+11D57", "U+11D58", "U+11D59">>,
      <<"U+11DA0", "U+11DA1", "U+11DA2", "U+11DA3", "U+11DA4", "U+11DA5", "U+11DA6", "U+11DA7", "U+11DA8", "U+11DA9">>,
      <<"U+16A60", "U+16A61", "U+16A62", "U+16A63", "U+16A64", "U+16A65", "U+16A66", "U+16A67", "U+16A68", "U+16A69">>,
      <<"U+16AC0", "U+16AC1", "U+16AC2", "U+16AC3", "U+16AC4", "U+16AC5", "U+16AC6", "U+16AC7", "U+16AC8", "U+16AC9">>,
      <<"U+16B50", "U+16B51", "U+16B52", "U+16B53", "U+16B54", "U+16B55", "U+16B56", "U+16B57", "U+16B58", "U+16B59">>,
      <<"U+1D7CE", "U+1D7CF", "U+1D7D0", "U+1D7D1", "U+1D7D2", "U+1D7D3", "U+1D7D4", "U+1D7D5", "U+1D7D6", "U+1D7D7">>,
      <<"U+1D7D8", "U+1D7D9", "U+1D7DA", "U+1D7DB", "U+1D7DC", "U+1D7DD", "U+1D7DE", "U+1D7DF", "U+1D7E0", "U+1D7E1">>,
      <<"U+1D7E2", "U+1D7E3", "U+1D7E4", "U+1D7E5", "U+1D7E6", "U+1D7E7", "U+1D7E8", "U+1D7E9", "U+1D7EA", "U+1D7EB">>,
      <<"U+1D7EC", "U+1D7ED", "U+1D7EE", "U+1D7EF", "U+1D7F0", "U+1D7F1", "U+1D7F2", "U+1D7F3", "U+1D7F4", "U+1D7F5">>,
      <<"U+1D7F6", "U+1D7F7", "U+1D7F8", "U+1D7F9", "U+1D7FA", "U+1D7FB", "U+1D7FC", "U+1D7FD", "U+1D7FE", "U+1D7FF">>,
      <<"U+1E140", "U+1E141", "U+1E142", "U+1E143", "U+1E144", "U+1E145", "U+1E146", "U+1E147", "U+1E148", "U+1E149">>,
      <<"U+1E2F0", "U+1E2F1", "U+1E2F2", "U+1E2F3", "U+1E2F4", "U+1E2F5", "U+1E2F6", "U+1E2F7", "U+1E2F8", "U+1E2F9">>,
      <<"U+1E950", "U+1E951", "U+1E952", "U+1E953", "U+1E954", "U+1E955", "U+1E956", "U+1E957", "U+1E958", "U+1E959">>,
      <<"U+1FBF0", "U+1FBF1", "U+1FBF2", "U+1FBF3", "U+1FBF4", "U+1FBF5", "U+1FBF6", "U+1FBF7", "U+1FBF8", "U+1FBF9">>>>

DigitChars ==
    {Digits[d] : d \in 1..10}
        \cup {UnicodeDigits[r][d] : r \in 1..Len(UnicodeDigits), d \in 1..10}

IsDigit(c) == c \in DigitChars

DigitVal(c) ==
    (CHOOSE d \in 1..10 :
        Digits[d] = c \/ \E r \in 1..Len(UnicodeDigits) : UnicodeDigits[r][d] = c) - 1

\* The file separator U+001C and the no-break space U+00A0
FileSeparator == ""

NoBreakSpace == " "

\* The separators U+001C to U+001F: whitespace for str.strip(), not for int()
Separators == {FileSeparator, "", "", ""}

\* The whitespace of str.strip() (str.isspace): tab, line feed, vertical
\* tab, form feed, carriage return, the separators, space, next line (U+0085),
\* no-break space (U+00A0) and the Unicode spaces U+1680, U+2000 to U+200A,
\* U+2028, U+2029, U+202F, U+205F, U+3000
SpaceChars ==
    Separators \cup
    {"\t", "\n", "", "\f", "\r", " ", "", " ", " ", "U+2000", "U+2001",
     "U+2002", "U+2003", "U+2004", "U+2005", "U+2006", "U+2007", "U+2008",
     "U+2009", "U+200A", "U+2028", "U+2029", "U+202F", "U+205F", "U+3000"}

IsSpace(c) == c \in SpaceChars

\* The whitespace int() itself skips around the literal
IsIntSpace(c) == c \in SpaceChars \ Separators

\* A dict value that is None instead of a str (csv.DictReader's restval for a
\* row shorter than the header).
NoneField == <<"<None>">>

RECURSIVE LStrip(_)
LStrip(s) ==
    IF s = <<>> THEN s
    ELSE IF IsSpace(Head(s)) THEN LStrip(Tail(s)) ELSE s

RECURSIVE RStrip(_)
RStrip(s) ==
    IF s = <<>> THEN s
    ELSE IF IsSpace(s[Len(s)]) THEN RStrip(SubSeq(s, 1, Len(s) - 1)) ELSE s

\* str.strip()
strip(s) == RStrip(LStrip(s))

\* str.replace(",", "")
replace_commas(s) == SelectSeq(s, LAMBDA c : c # ",")

RECURSIVE DigitsValue(_)
DigitsValue(s) ==
    IF s = <<>> THEN 0
    ELSE 10 * DigitsValue(SubSeq(s, 1, Len(s) - 1)) + DigitVal(s[Len(s)])

RECURSIVE IntLStrip(_)
IntLStrip(s) ==
    IF s = <<>> THEN s
    ELSE IF IsIntSpace(Head(s)) THEN IntLStrip(Tail(s)) ELSE s

RECURSIVE IntRStrip(_)
IntRStrip(s) ==
    IF s = <<>> THEN s
    ELSE IF IsIntSpace(s[Len(s)]) THEN IntRStrip(SubSeq(s, 1, Len(s) - 1)) ELSE s

\* The argument of int() without the whitespace int() skips at its ends
int_strip(s) == IntRStrip(IntLStrip(s))

\* sys.get_int_max_str_digits(): int() raises ValueError for a literal of
\* more digits (CPython 3.11 and later, default setting)
MaxStrDigits == 4300

\* The body of an integer literal as int() accepts it: digits, with single
\* underscores allowed between digits.
IsIntBody(t) ==
    /\ t # <<>>
    /\ \A i \in 1..Len(t) : IsDigit(t[i]) \/ t[i] = "_"
    /\ IsDigit(t[1]) /\ IsDigit(t[Len(t)])
    /\ \A i \in 1..(Len(t) - 1) : ~(t[i] = "_" /\ t[i + 1] = "_")

Unsigned(t) == IF t # <<>> /\ Head(t) \in {"+", "-"} THEN Tail(t) ELSE t

\* int(s) succeeds: int() itself skips surrounding whitespace and takes a sign.
IntOk(s) ==
    /\ IsIntBody(Unsigned(int_strip(s)))
    /\ Len(SelectSeq(Unsigned(int_strip(s)), IsDigit)) <= MaxStrDigits

\* int(s) where IntOk(s)
IntVal(s) ==
    LET t == int_strip(s)
        v == DigitsValue(SelectSeq(Unsigned(t), IsDigit))
    IN IF t # <<>> /\ Head(t) = "-" THEN 0 - v ELSE v

-----------------------------------------------------------------------------
(* _parse_csv_data                                                         *)

EmptyMap == [y \in {} |-> 0]

\* result[year] = count
Put(m, year, count) ==
    [y \in DOMAIN m \cup {year} |-> IF y = year THEN count ELSE m[y]]

ParseOk(m) == [kind |-> "map", map |-> m, error |-> ""]
ParseRaise(e) == [kind |-> "raise", map |-> EmptyMap, error |-> e]

\* One iteration of the loop over the rows, from the mapping acc: the row is
\* skipped, stored, or an exception the except clause does not catch leaves
\* the parser.
ParseRow(acc, row) ==
    IF Len(row) < 2 THEN ParseOk(acc)
    ELSE IF row[1] = NoneField THEN ParseRaise("AttributeError")
    ELSE IF ~IntOk(strip(row[1])) THEN ParseOk(acc)
    ELSE IF row[2] = NoneField THEN ParseRaise("AttributeError")
    ELSE IF ~IntOk(replace_commas(strip(row[2]))) THEN ParseOk(acc)
    ELSE ParseOk(Put(acc, IntVal(strip(row[1])), IntVal(replace_commas(strip(row[2])))))

RECURSIVE ParseFrom(_, _)
ParseFrom(acc, data) ==
    IF data = <<>> THEN ParseOk(acc)
    ELSE LET r == ParseRow(acc, Head(data))
         IN IF r.kind = "raise" THEN r ELSE ParseFrom(r.map, Tail(data))

_parse_csv_data(data) == ParseFrom(EmptyMap, data)

-----------------------------------------------------------------------------
(* fetch_csv_from_url (hkopenai_common, outside this repository): what it  *)
(* returns for one URL is the environment's choice, a dict with an "error" *)
(* key or the list of the resource's rows                                  *)

HttpError(msg) == [kind |-> "error", rows |-> <<>>, error |-> msg]
HttpRows(rows) == [kind |-> "rows", rows |-> rows, error |-> ""]

\* "error" in csv_data, for what fetch_csv_from_url returned
HasErrorKey(resp) == resp.kind = "error"

-----------------------------------------------------------------------------
(* _try_fetch_year_data                                                    *)

UrlSuffixes == <<"_gc-no-of-registered-electors.csv",
                 "_gc-no-of-registered-electors_en.csv">>

\* urls[i] for the year
Url(year, i) == [year |-> year, name |-> UrlSuffixes[i]]

FetchError(msg) == [kind |-> "error", map |-> EmptyMap, error |-> msg]

\* Mutant of UrlStep: an error on one URL falls through to the next URL.
UrlStep_FallThrough(resp) ==
    IF ~HasErrorKey(resp) /\ resp.rows # <<>>
    THEN [done |-> TRUE, out |-> _parse_csv_data(resp.rows)]
    ELSE [done |-> FALSE, out |-> ParseOk(EmptyMap)]

\* The body of the loop over the URLs, for the response to one request: the
\* fetcher returns (done) or goes on to the next URL.
UrlStep(resp) ==
    IF HasErrorKey(resp) THEN [done |-> TRUE, out |-> FetchError(resp.error)]
    ELSE IF resp.rows # <<>> THEN [done |-> TRUE, out |-> _parse_csv_data(resp.rows)]
    ELSE [done |-> FALSE, out |-> ParseOk(EmptyMap)]

\* The fetcher's result when the URLs answer resps[1], resps[2] in turn: the
\* loop ends at the first response it returns on, and returns {} after the last.
RECURSIVE TryFrom(_)
TryFrom(resps) ==
    IF resps = <<>> THEN ParseOk(EmptyMap)
    ELSE LET s == UrlStep(Head(resps))
         IN IF s.done THEN s.out ELSE TryFrom(Tail(resps))

_try_fetch_year_data(resps) == TryFrom(resps)

-----------------------------------------------------------------------------
(* Bounds and the inputs drawn within them                                 *)

MinYear == 2009
Span == 3         \* the years of the model are MinYear .. MinYear + Span
MaxRows == 2      \* rows of one remote resource

Years == MinYear..(MinYear + Span)

\* start_year and end_year: the years of the model and the two years before them
ArgYears == (MinYear - 2)..(MinYear + Span)

Counts == {3800, 4000}

ErrorMsgs == {"Fetch failed", "Timed out"}

RECURSIVE ToStr(_)
ToStr(n) ==
    IF n < 10 THEN <<Digits[n + 1]>>
    ELSE Append(ToStr(n \div 10), Digits[(n % 10) + 1])

\* The rows of a resource that publishes the mapping m, in year order
RECURSIVE RowsOf(_)
RowsOf(m) ==
    IF DOMAIN m = {} THEN <<>>
    ELSE LET y == CHOOSE z \in DOMAIN m : \A w \in DOMAIN m : z <= w
         IN <<<<ToStr(y), ToStr(m[y])>>>> \o RowsOf([w \in DOMAIN m \ {y} |-> m[w]])

RemoteMaps ==
    UNION {[S -> Counts] : S \in {T \in SUBSET Years : Cardinality(T) <= MaxRows}}

\* What fetch_csv_from_url may answer during an aggregation: an error, no
\* rows, the rows of some years, a row that is no number, a row with a
\* missing count, and a row of the first year whose year has a form feed and
\* a no-break space around it and whose count is written 3,800 with a
\* fullwidth 8.
RemoteResponses ==
    {HttpError(e) : e \in ErrorMsgs}
        \cup {HttpRows(RowsOf(m)) : m \in RemoteMaps}
        \cup {HttpRows(<<<<<<"I", "n", "v">>, <<"D", "a", "t", "a">>>>>>),
              HttpRows(<<<<ToStr(MinYear), NoneField>>>>),
              HttpRows(<<<<<<"\f">> \o ToStr(MinYear) \o <<NoBreakSpace>>,
                          <<"3", ",", "U+FF18", "0", "0">>>>>>)}

\* Every result a fetcher invocation can have on those responses
FetchResults ==
    {_try_fetch_year_data(<<r1, r2>>) : r1 \in RemoteResponses, r2 \in RemoteResponses}

-----------------------------------------------------------------------------
(* _fetch_gc_registered_electors_data and _get_gc_registered_electors      *)

MsgStartYear == "Start year must be 2009 or later"
MsgOrder == "Start year must be less than or equal to end year"
MsgNoData == "No data found for the specified year range"

\* Mutant of Offsets: the later year is tried first.
Offsets_LaterFirst == <<1, -1, 2, -2>>

Offsets == <<-1, 1, -2, 2>>

NoResult == [pending |-> TRUE]

\* What _fetch_gc_registered_electors_data returns: a list of dicts, or the
\* fetcher's error dict itself
AsList(items) == [kind |-> "list", items |-> items, error |-> ""]
AsErrorDict(msg) == [kind |-> "dict", items |-> <<>>, error |-> msg]

\* Mutant of StartTooEarly: the bound is off by one (start_year < 2008).
StartTooEarly_OffByOne(s) == s < MinYear - 1

StartTooEarly(s) == s < MinYear

\* Mutant of StartAfterEnd: a range one year short of empty is let through.
StartAfterEnd_Slack(s, e) == s > e + 1

StartAfterEnd(s, e) == s > e

\* for year, count in csv_data.items(): if year not in data_dict: ...
DirectMerge(d, m) ==
    [y \in DOMAIN d \cup DOMAIN m |-> IF y \in DOMAIN d THEN d[y] ELSE m[y]]

\* if csv_data and current_year in csv_data
FallbackHit(m, cur) == m # EmptyMap /\ cur \in DOMAIN m

\* Mutant of FallbackMerge: the whole neighbouring resource is merged.
FallbackMerge_All(d, m, cur) ==
    [y \in DOMAIN d \cup DOMAIN m |-> IF y \in DOMAIN m THEN m[y] ELSE d[y]]

\* data_dict[current_year] = csv_data[current_year]
FallbackMerge(d, m, cur) == Put(d, cur, m[cur])

\* Mutant of IsCandidate: a candidate above end_year is fetched too.
IsCandidate_NoUpper(test_year, e) == test_year >= MinYear

\* if test_year >= 2009 and test_year <= end_year
IsCandidate(test_year, e) == test_year >= MinYear /\ test_year <= e

\* The next position of the offsets list, from position i on, whose test_year
\* is fetched; 0 when the list is exhausted.
NextCandidate(cur, i, e) ==
    LET ok == {j \in i..Len(Offsets) : IsCandidate(cur + Offsets[j], e)}
    IN IF ok = {} THEN 0 ELSE CHOOSE j \in ok : \A k \in ok : j <= k

\* Mutant of InRange: the lower end of the range is not checked.
InRange_NoLower(y, s, e) == y <= e

\* if start_year <= year <= end_year
InRange(y, s, e) == s <= y /\ y <= e

\* sorted(data_dict.items())
RECURSIVE SortedItems(_)
SortedItems(d) ==
    IF DOMAIN d = {} THEN <<>>
    ELSE LET y == CHOOSE z \in DOMAIN d : \A w \in DOMAIN d : z <= w
         IN <<<<y, d[y]>>>> \o SortedItems([w \in DOMAIN d \ {y} |-> d[w]])

\* The list comprehension that builds result
BuildResult(d, s, e) ==
    LET kept == SelectSeq(SortedItems(d), LAMBDA it : InRange(it[1], s, e))
    IN [i \in 1..Len(kept) |-> [year |-> kept[i][1], electors |-> kept[i][2]]]

\* Mutant of ReturnOf: the empty result is returned as it is.
ReturnOf_NoCheck(d, s, e) == AsList(BuildResult(d, s, e))

\* The return after the loop
ReturnOf(d, s, e) ==
    IF BuildResult(d, s, e) = <<>> THEN AsList(<<[error |-> MsgNoData]>>)
    ELSE AsList(BuildResult(d, s, e))

\* _get_gc_registered_electors on what the aggregation returned: data[0] of
\* the fetcher's error dict is a KeyError, of an empty list an IndexError.
Respond(data) ==
    IF data.kind = "dict" THEN [exc |-> "KeyError", result |-> NoResult]
    ELSE IF data.items = <<>> THEN [exc |-> "IndexError", result |-> NoResult]
    ELSE IF "error" \in DOMAIN data.items[1]
         THEN [exc |-> "", result |-> [error |-> data.items[1].error]]
         ELSE [exc |-> "", result |-> [data |-> data.items,
                                       source |-> "Registration and Electoral Office",
                                       note |-> "Data fetched from voterregistration.gov.hk"]]

-----------------------------------------------------------------------------
(* One call of get_gc_registered_electors                                  *)

\* The history of the call, kept beside the program's variables: whether the
\* fetcher was invoked at all, whether every invocation returned {}, the
\* error message a fetch returned and, for one year of the model (year, any
\* of them): whether its direct fetch returned {} (dirEmpty), whether its
\* fallback search found nothing (missed), and whether some direct fetch
\* reported it (direct).
\* prev is what the remote site is known to publish: when it is a count c, the
\* resource of year - 1 holds a row (year, c) at every fetch of it; when it
\* is 0 nothing is known of the site.
HistInit(y, c) ==
    [year |-> y, prev |-> c, fetched |-> FALSE, allEmpty |-> TRUE, err |-> "",
     dirEmpty |-> FALSE, missed |-> FALSE, direct |-> FALSE]

\* The results a fetcher invocation for test_year can have
FetchResultsFor(test_year) ==
    IF hist.prev # 0 /\ test_year = hist.year - 1
    THEN {o \in FetchResults :
            o.kind = "map" /\ hist.year \in DOMAIN o.map /\ o.map[hist.year] = hist.prev}
    ELSE FetchResults

FetIdle ==
    /\ f_pc = "idle" /\ f_year = 0 /\ f_i = 0
    /\ f_requests = <<>> /\ f_responses = <<>> /\ f_result = ParseOk(EmptyMap)

ParIdle ==
    /\ p_pc = "idle" /\ p_data = <<>> /\ p_i = 0 /\ p_result = EmptyMap

AggIdle ==
    /\ pc = "idle" /\ start_year = 0 /\ end_year = 0 /\ current_year = 0
    /\ data_dict = EmptyMap /\ offset_idx = 0 /\ result = NoResult /\ exc = ""
    /\ calls = <<>> /\ hist \in {HistInit(y, c) : y \in Years, c \in Counts \cup {0}}

Init == AggIdle /\ FetIdle /\ ParIdle

\* The tool's call ends: the wrapper answers, or an exception leaves it.
Finish(data) ==
    /\ pc' = IF Respond(data).exc = "" THEN "done" ELSE "raised"
    /\ result' = Respond(data).result
    /\ exc' = Respond(data).exc

\* An exception raised under the fetcher leaves the tool.
Propagate(e) ==
    /\ pc' = "raised"
    /\ result' = NoResult
    /\ exc' = e

\* The body of the while loop is over for current_year (the year had data,
\* the break, or the offsets are exhausted): current_year += 1 is next.
EndIteration ==
    /\ pc' = "advance"
    /\ offset_idx' = 0
    /\ UNCHANGED <<current_year, result, exc>>

\* What the direct fetch returned, as the loop body tests it: an error dict,
\* an exception, {} or a mapping with data.
DirectGot(out) ==
    IF out.kind = "error" THEN "error"
    ELSE IF out.kind = "raise" THEN "raise"
    ELSE IF out.map = EmptyMap THEN "empty"
    ELSE "data"

\* What a fallback fetch returned, as the loop over the offsets tests it: an
\* error dict, an exception, a mapping that holds cur or one that lacks it.
FallbackGot(out, cur) ==
    IF out.kind = "error" THEN "error"
    ELSE IF out.kind = "raise" THEN "raise"
    ELSE IF cur \in DOMAIN out.map THEN "holds"
    ELSE "lacks"

\* The record of one call _try_fetch_year_data(year)
Invocation(year, got) == [year |-> year, got |-> got]

Seen(out) ==
    [hist EXCEPT !.fetched = TRUE,
                 !.allEmpty = hist.allEmpty /\ out.kind = "map" /\ out.map = EmptyMap,
                 !.err = IF out.kind = "error" THEN out.error ELSE hist.err]

\* The call and the checks of its arguments
Call(s, e) ==
    /\ pc = "idle"
    /\ start_year' = s
    /\ end_year' = e
    /\ IF StartTooEarly(s)
       THEN /\ Finish(AsList(<<[error |-> MsgStartYear]>>))
            /\ UNCHANGED <<current_year, data_dict>>
       ELSE IF StartAfterEnd(s, e)
       THEN /\ Finish(AsList(<<[error |-> MsgOrder]>>))
            /\ UNCHANGED <<current_year, data_dict>>
       ELSE /\ current_year' = s
            /\ data_dict' = EmptyMap
            /\ pc' = "loop"
            /\ UNCHANGED <<result, exc>>
    /\ UNCHANGED <<offset_idx, calls, hist>>

\* csv_data = _try_fetch_year_data(current_year) and what the loop body does
\* with it, up to the next fetch
DirectFetch(out) ==
    /\ pc = "loop"
    /\ current_year <= end_year
    /\ IF out.kind = "error"
       THEN /\ Finish(AsErrorDict(out.error))
            /\ hist' = Seen(out)
            /\ UNCHANGED <<current_year, data_dict, offset_idx>>
       ELSE IF out.kind = "raise"
       THEN /\ Propagate(out.error)
            /\ hist' = Seen(out)
            /\ UNCHANGED <<current_year, data_dict, offset_idx>>
       ELSE IF out.map # EmptyMap
       THEN /\ data_dict' = DirectMerge(data_dict, out.map)
            /\ hist' = [Seen(out) EXCEPT !.direct = hist.direct \/ hist.year \in DOMAIN out.map]
            /\ EndIteration
       ELSE IF NextCandidate(current_year, 1, end_year) = 0
       THEN /\ hist' = [Seen(out) EXCEPT
                            !.dirEmpty = hist.dirEmpty \/ hist.year = current_year,
                            !.missed = hist.missed \/ hist.year = current_year]
            /\ EndIteration
            /\ UNCHANGED data_dict
       ELSE /\ pc' = "fallback"
            /\ offset_idx' = NextCandidate(current_year, 1, end_year)
            /\ hist' = [Seen(out) EXCEPT
                            !.dirEmpty = hist.dirEmpty \/ hist.year = current_year]
            /\ UNCHANGED <<current_year, data_dict, result, exc>>
    /\ calls' = <<Invocation(current_year, DirectGot(out))>>
    /\ UNCHANGED <<start_year, end_year>>

\* csv_data = _try_fetch_year_data(test_year) in the loop over the offsets
FallbackFetch(out) ==
    LET test_year == current_year + Offsets[offset_idx]
    IN
    /\ pc = "fallback"
    /\ IF out.kind = "error"
       THEN /\ Finish(AsErrorDict(out.error))
            /\ hist' = Seen(out)
            /\ UNCHANGED <<current_year, data_dict, offset_idx>>
       ELSE IF out.kind = "raise"
       THEN /\ Propagate(out.error)
            /\ hist' = Seen(out)
            /\ UNCHANGED <<current_year, data_dict, offset_idx>>
       ELSE IF FallbackHit(out.map, current_year)
       THEN /\ data_dict' = FallbackMerge(data_dict, out.map, current_year)
            /\ hist' = Seen(out)
            /\ EndIteration
       ELSE IF NextCandidate(current_year, offset_idx + 1, end_year) = 0
       THEN /\ hist' = [Seen(out) EXCEPT !.missed = hist.missed \/ hist.year = current_year]
            /\ EndIteration
            /\ UNCHANGED data_dict
       ELSE /\ offset_idx' = NextCandidate(current_year, offset_idx + 1, end_year)
            /\ hist' = Seen(out)
            /\ UNCHANGED <<pc, current_year, data_dict, result, exc>>
    /\ calls' = Append(calls, Invocation(test_year, FallbackGot(out, current_year)))
    /\ UNCHANGED <<start_year, end_year>>

\* current_year += 1, and the next iteration begins
Advance ==
    /\ pc = "advance"
    /\ pc' = "loop"
    /\ current_year' = current_year + 1
    /\ calls' = <<>>
    /\ UNCHANGED <<start_year, end_year, data_dict, offset_idx, result, exc, hist>>

\* The loop is over: the result list, and the wrapper's answer
Return ==
    /\ pc = "loop"
    /\ current_year > end_year
    /\ Finish(ReturnOf(data_dict, start_year, end_year))
    /\ UNCHANGED <<start_year, end_year, current_year, data_dict, offset_idx,
                   calls, hist>>

Next ==
    \/ \E s \in ArgYears, e \in ArgYears : Call(s, e) /\ UNCHANGED <<fetVars, parVars>>
    \/ \E out \in FetchResultsFor(current_year) :
          DirectFetch(out) /\ UNCHANGED <<fetVars, parVars>>
    \/ /\ pc = "fallback"
       /\ \E out \in FetchResultsFor(current_year + Offsets[offset_idx]) :
             FallbackFetch(out) /\ UNCHANGED <<fetVars, parVars>>
    \/ Advance /\ UNCHANGED <<fetVars, parVars>>
    \/ Return /\ UNCHANGED <<fetVars, parVars>>

Spec == Init /\ [][Next]_vars

-----------------------------------------------------------------------------
(* One call of get_gc_registered_electors over ranges that reach one year  *)
(* beyond the years the remote resources report (SpecOrder): a year in the *)
(* middle of the longest range has all four fallback candidates            *)

OrderYears == MinYear..(MinYear + Span + 1)

InitOrder ==
    /\ pc = "idle" /\ start_year = 0 /\ end_year = 0 /\ current_year = 0
    /\ data_dict = EmptyMap /\ offset_idx = 0 /\ result = NoResult /\ exc = ""
    /\ calls = <<>> /\ hist = HistInit(MinYear, 0)
    /\ FetIdle /\ ParIdle

NextOrder ==
    \/ \E s \in OrderYears, e \in OrderYears : Call(s, e) /\ UNCHANGED <<fetVars, parVars>>
    \/ \E out \in FetchResults : DirectFetch(out) /\ UNCHANGED <<fetVars, parVars>>
    \/ \E out \in FetchResults : FallbackFetch(out) /\ UNCHANGED <<fetVars, parVars>>
    \/ Advance /\ UNCHANGED <<fetVars, parVars>>
    \/ Return /\ UNCHANGED <<fetVars, parVars>>

SpecOrder == InitOrder /\ [][NextOrder]_vars

-----------------------------------------------------------------------------
(* One call of _try_fetch_year_data, a request at a time (SpecFetcher)     *)

AggUnused ==
    /\ pc = "idle" /\ start_year = 0 /\ end_year = 0 /\ current_year = 0
    /\ data_dict = EmptyMap /\ offset_idx = 0 /\ result = NoResult /\ exc = ""
    /\ calls = <<>> /\ hist = HistInit(MinYear, 0)

InitFetcher ==
    /\ AggUnused /\ ParIdle
    /\ f_pc = "loop" /\ f_year \in Years /\ f_i = 1
    /\ f_requests = <<>> /\ f_responses = <<>> /\ f_result = ParseOk(EmptyMap)

\* csv_data = fetch_csv_from_url(url, ...) for the next URL, and the rest of
\* the loop body
FetchUrl(resp) ==
    /\ f_pc = "loop"
    /\ f_i <= Len(UrlSuffixes)
    /\ f_requests' = Append(f_requests, Url(f_year, f_i))
    /\ f_responses' = Append(f_responses, resp)
    /\ IF UrlStep(resp).done
       THEN /\ f_result' = UrlStep(resp).out
            /\ f_pc' = IF UrlStep(resp).out.kind = "raise" THEN "raised" ELSE "returned"
            /\ f_i' = f_i
       ELSE /\ f_i' = f_i + 1
            /\ UNCHANGED <<f_result, f_pc>>
    /\ UNCHANGED f_year

\* return {} after the loop
FetchReturnEmpty ==
    /\ f_pc = "loop"
    /\ f_i > Len(UrlSuffixes)
    /\ f_result' = ParseOk(EmptyMap)
    /\ f_pc' = "returned"
    /\ UNCHANGED <<f_year, f_i, f_requests, f_responses>>

NextFetcher ==
    \/ \E resp \in RemoteResponses : FetchUrl(resp) /\ UNCHANGED <<aggVars, parVars>>
    \/ FetchReturnEmpty /\ UNCHANGED <<aggVars, parVars>>

SpecFetcher == InitFetcher /\ [][NextFetcher]_vars

-----------------------------------------------------------------------------
(* One call of _parse_csv_data, a row at a time (SpecParser)               *)

MaxLen == 2       \* characters of one field

FieldChars == {"1", ",", " ", "x"}

Strings == UNION {[1..n -> FieldChars] : n \in 0..MaxLen}

Fields == Strings \cup {NoneField}

\* The rows handed to the parser: dicts of two keys, dicts of no key, one
\* key and three keys, a row with a form feed before the year and a fullwidth
\* digit as count, and a row whose count has a file separator after a comma
ParserRows ==
    {<<a, b>> : a \in Fields, b \in Fields}
        \cup {<<>>, <<<<"1">>>>, <<<<"1">>, <<"1", "1">>, <<"x">>>>,
              <<<<"\f", "1">>, <<"U+FF11">>>>,
              <<<<"1", FileSeparator>>, <<",", FileSeparator, "1">>>>}

ParserInputs == UNION {[1..n -> ParserRows] : n \in 0..MaxRows}

InitParser ==
    /\ AggUnused /\ FetIdle
    /\ p_pc = "loop" /\ p_data \in ParserInputs /\ p_i = 1 /\ p_result = EmptyMap

\* The loop body for the next row
ParseNextRow ==
    /\ p_pc = "loop"
    /\ p_i <= Len(p_data)
    /\ IF ParseRow(p_result, p_data[p_i]).kind = "raise"
       THEN /\ p_pc' = "raised"
            /\ UNCHANGED <<p_result, p_i>>
       ELSE /\ p_result' = ParseRow(p_result, p_data[p_i]).map
            /\ p_i' = p_i + 1
            /\ UNCHANGED p_pc
    /\ UNCHANGED p_data

\* return result
ParseReturn ==
    /\ p_pc = "loop"
    /\ p_i > Len(p_data)
    /\ p_pc' = "returned"
    /\ UNCHANGED <<p_data, p_i, p_result>>

NextParser ==
    \/ ParseNextRow /\ UNCHANGED <<aggVars, fetVars>>
    \/ ParseReturn /\ UNCHANGED <<aggVars, fetVars>>

SpecParser == InitParser /\ [][NextParser]_vars

-----------------------------------------------------------------------------
(* Properties of one call of get_gc_registered_electors (Spec)             *)

Ended == pc \in {"done", "raised"}

ValidRange == start_year >= MinYear /\ start_year <= end_year

IsError(msg) == DOMAIN result = {"error"} /\ result.error = msg

IsSuccess == "data" \in DOMAIN result

\* The success payload holds the record {year: y, electors: c}
HasRecord(y, c) ==
    /\ IsSuccess
    /\ \E i \in 1..Len(result.data) : result.data[i] = [year |-> y, electors |-> c]

\* Every fetcher invocation so far returned a mapping: none returned an error
\* dict, none raised.
AllFetchesReturnedMaps == hist.err = "" /\ exc \notin {"AttributeError"}

\* C1: when a fetcher invocation (direct or fallback) of a valid range returns
\* the error m, the tool returns exactly {error: m}: it does not raise, and
\* the result has no data, source or note.
C1_FetchErrorIsReturned ==
    (hist.err # "") => (pc = "done" /\ exc = "" /\ IsError(hist.err))

\* C2: for start_year < 2009, whatever end_year is, the tool returns
\* {error: "Start year must be 2009 or later"} and the fetcher is never invoked.
C2_StartTooEarly ==
    (pc # "idle" /\ start_year < 2009) =>
        /\ pc = "done"
        /\ IsError("Start year must be 2009 or later")
        /\ ~hist.fetched /\ calls = <<>>

C2_Witness == pc = "done" /\ start_year = 2008 /\ end_year > 2009

\* C3 as stated: for every start_year > end_year the tool returns
\* {error: "Start year must be less than or equal to end year"}.
C3_EveryPair ==
    (pc # "idle" /\ start_year > end_year) =>
        (pc = "done" /\ IsError("Start year must be less than or equal to end year"))

\* C3 amended: for every start_year >= 2009 with start_year > end_year the
\* tool returns {error: "Start year must be less than or equal to end year"}
\* (a start_year below 2009 gets the start-year error whatever end_year is).
C3_OrderError ==
    (pc # "idle" /\ start_year >= 2009 /\ start_year > end_year) =>
        (pc = "done" /\ IsError("Start year must be less than or equal to end year"))

C3_Witness == pc = "done" /\ start_year >= 2009 /\ start_year = end_year + 1

\* C4: the data list of a success payload is sorted strictly ascending by
\* year and every record's year is within [start_year, end_year], so no year
\* appears twice, whatever years the fetched resources reported.
C4_SortedInRange ==
    (pc = "done" /\ IsSuccess) =>
        /\ \A i \in 1..Len(result.data) :
              start_year <= result.data[i].year /\ result.data[i].year <= end_year
        /\ \A i \in 1..Len(result.data) : \A j \in 1..Len(result.data) :
              i < j => result.data[i].year < result.data[j].year

\* A success of several records although the dataset holds a year below
\* start_year, where the first year's own resource was empty and its count came
\* from the fallback fetch of the year before start_year.
C4_Witness ==
    /\ pc = "done" /\ IsSuccess /\ Len(result.data) >= 2
    /\ \E y \in DOMAIN data_dict : y < start_year
    /\ hist.year = start_year /\ hist.dirEmpty /\ hist.prev # 0

\* C5: a valid range all of whose fetcher invocations return {} ends with
\* {error: "No data found for the specified year range"}; and that error is
\* the answer whenever the aggregation ends with no dataset year inside the
\* range, so a success payload never carries an empty data list.
C5_NoData ==
    /\ (Ended /\ ValidRange /\ hist.allEmpty) =>
          (pc = "done" /\ IsError("No data found for the specified year range"))
    /\ (Ended /\ ValidRange /\ AllFetchesReturnedMaps
          /\ \A y \in DOMAIN data_dict : ~(start_year <= y /\ y <= end_year)) =>
          (pc = "done" /\ IsError("No data found for the specified year range"))
    /\ (pc = "done" /\ IsSuccess) => Len(result.data) >= 1

\* Every fetch of a range of several years returned {}.
C5_Witness ==
    pc = "done" /\ ValidRange /\ end_year > start_year /\ hist.fetched /\ hist.allEmpty

\* C6: for a year Y of a valid range with Y - 1 >= 2009 whose direct fetch
\* returns {}, when the resource of Y - 1 holds Y with count c and every
\* fetch returns a mapping, the success payload holds {year: Y, electors: c}.
C6_FallbackPreviousYear ==
    (Ended /\ hist.prev # 0 /\ hist.year - 1 >= 2009 /\ hist.dirEmpty
        /\ AllFetchesReturnedMaps) =>
        (pc = "done" /\ HasRecord(hist.year, hist.prev))

\* The year Y is the first of the range and Y - 1 >= 2009, so that the
\* resource of Y - 1, a year below start_year, is the first fallback
\* candidate; a later year is in the range too.
C6_Witness ==
    /\ pc = "done" /\ hist.prev # 0 /\ hist.dirEmpty
    /\ hist.year - 1 >= 2009
    /\ hist.year = start_year /\ start_year < end_year
    /\ AllFetchesReturnedMaps
    /\ HasRecord(hist.year, hist.prev)

\* C7 as stated: a year whose direct fetch returned {} and none of whose
\* fallback candidates held it is absent from the dataset and the data list.
C7_MissedYearAbsent ==
    (pc = "done" /\ hist.missed) =>
        /\ hist.year \notin DOMAIN data_dict
        /\ IsSuccess => \A i \in 1..Len(result.data) : result.data[i].year # hist.year

\* C7 amended: a year whose direct fetch returned {}, none of whose fallback
\* candidates held it and which no direct fetch of the range reported is
\* absent from the dataset and the data list; when every fetch returned a
\* mapping the call does not raise, and the years of the range that are in the
\* dataset are returned with their counts (or, when there is none, the
\* no-data error).
C7_MissedUnreportedYearAbsent ==
    /\ (hist.missed /\ ~hist.direct) => hist.year \notin DOMAIN data_dict
    /\ (Ended /\ hist.missed /\ ~hist.direct /\ AllFetchesReturnedMaps) =>
          /\ pc = "done"
          /\ IsSuccess => \A i \in 1..Len(result.data) : result.data[i].year # hist.year
          /\ IsSuccess \/ IsError("No data found for the specified year range")
          /\ \A y \in DOMAIN data_dict :
                (start_year <= y /\ y <= end_year) => HasRecord(y, data_dict[y])

\* The year has no record while two other years of the range have.
C7_Witness ==
    /\ pc = "done" /\ hist.missed /\ ~hist.direct
    /\ start_year < hist.year /\ hist.year < end_year
    /\ IsSuccess /\ Len(result.data) >= 2

\* C9: during one aggregation the count stored for a year never changes once
\* it is in the dataset: neither a direct merge nor a fallback merge
\* overwrites it.
C9_FirstWriteWins ==
    [][\A y \in DOMAIN data_dict :
          y \in DOMAIN data_dict' /\ data_dict'[y] = data_dict[y]]_vars

-----------------------------------------------------------------------------
(* Properties of the order of the fetcher invocations (SpecOrder)          *)

\* The fallback candidates of the year y in a range that ends at e: y - 1,
\* y + 1, y - 2, y + 2 in that order, without those below 2009 or above e
FallbackPlan(y, e) ==
    SelectSeq(<<y - 1, y + 1, y - 2, y + 2>>, LAMBDA t : t >= 2009 /\ t <= e)

\* The invocations so far of the iteration of y are in order: the direct
\* fetch of y first, then candidates in the order of the plan; a fallback
\* fetch only after a direct fetch that returned {} and after candidates that
\* lacked y.
InOrder(log, y, e) ==
    /\ Len(log) <= 1 + Len(FallbackPlan(y, e)) /\ Len(log) <= 5
    /\ \A i \in 1..Len(log) : log[i].year = (<<y>> \o FallbackPlan(y, e))[i]
    /\ Len(log) >= 2 => log[1].got = "empty"
    /\ \A i \in 2..(Len(log) - 1) : log[i].got = "lacks"

\* No invocation is to follow in the iteration: the direct fetch had data, a
\* candidate held y, or every candidate was fetched and lacked y.
Complete(log, y, e) ==
    \/ Len(log) = 1 /\ log[1].got = "data"
    \/ Len(log) >= 2 /\ log[Len(log)].got = "holds"
    \/ /\ Len(log) = 1 + Len(FallbackPlan(y, e))
       /\ log[Len(log)].got = (IF Len(log) = 1 THEN "empty" ELSE "lacks")

\* The last invocation returned an Error or raised: the aggregation is over.
Aborted(log) == log[Len(log)].got \in {"error", "raise"}

\* The log of the current iteration at each position of the aggregation
LogFits ==
    /\ pc \in {"idle", "loop"} => calls = <<>>
    /\ calls # <<>> =>
          /\ start_year >= 2009
          /\ start_year <= current_year /\ current_year <= end_year
          /\ InOrder(calls, current_year, end_year)
          /\ pc = "fallback" <=>
                (~Complete(calls, current_year, end_year) /\ ~Aborted(calls))
          /\ pc = "advance" <=> Complete(calls, current_year, end_year)
          /\ Ended <=> Aborted(calls)
    /\ (Ended /\ (IsSuccess \/ IsError(MsgNoData))) =>
          (calls = <<>> /\ current_year = end_year + 1)

\* One step of the aggregation: the log grows by one invocation, or is
\* emptied when a complete iteration is left for the next year.
LogStep ==
    /\ calls' # calls =>
          \/ Len(calls') = Len(calls) + 1 /\ SubSeq(calls', 1, Len(calls)) = calls
          \/ /\ calls' = <<>> /\ Complete(calls, current_year, end_year)
             /\ current_year' = current_year + 1
    /\ current_year' # current_year =>
          \/ calls' = <<>> /\ calls # <<>>
          \/ pc = "idle" /\ current_year' = start_year'
    /\ UNCHANGED <<start_year, end_year>> \/ pc = "idle"

\* C11: in one aggregation the fetcher is invoked for current_year ascending
\* from start_year to end_year: one direct fetch of current_year, followed,
\* only if it returned {} and before the iteration of current_year + 1, by
\* fallback fetches of current_year - 1, + 1, - 2, + 2 in that order without
\* the candidates below 2009 or above end_year, ending after the first that
\* holds current_year; there is no other invocation (at most 5 per year), and
\* an aggregation that ends with no Error has gone through every year.
C11_InvocationOrder == []LogFits /\ [][LogStep]_vars

\* A year with all four candidates, none of which held it: five invocations.
C11_Witness ==
    /\ pc = "advance" /\ start_year = 2009 /\ current_year = 2011
    /\ Len(calls) = 5
    /\ <<calls[2].year, calls[3].year, calls[4].year, calls[5].year>>
          = <<2010, 2012, 2009, 2013>>
    /\ calls[5].got = "lacks"

-----------------------------------------------------------------------------
(* Properties of the parser (SpecParser)                                   *)

\* A field converts to an integer: it is a string that is a run of decimal
\* digits between whitespace that int() skips.
Converts(f) ==
    /\ f # NoneField
    /\ \E i \in 1..Len(f) : \E j \in i..Len(f) :
          /\ \A k \in 1..Len(f) : (k < i \/ k > j) => IsIntSpace(f[k])
          /\ \A k \in i..j : IsDigit(f[k])

\* The field with its whitespace trimmed; None has none to trim
Trimmed(f) == IF f = NoneField THEN f ELSE strip(f)

\* The count field with its commas removed; None has none to remove
Uncomma(f) == IF f = NoneField THEN f ELSE replace_commas(strip(f))

ValidRow(row) ==
    Len(row) >= 2 /\ Converts(Trimmed(row[1])) /\ Converts(Uncomma(row[2]))

\* The mapping year -> count of the valid rows, the later row winning
ExpectedMap(data) ==
    LET valid == {i \in 1..Len(data) : ValidRow(data[i])}
        year(i) == IntVal(Trimmed(data[i][1]))
        last(y) == CHOOSE i \in valid :
                      /\ year(i) = y
                      /\ \A k \in valid : year(k) = y => k <= i
    IN [y \in {year(i) : i \in valid} |-> IntVal(Uncomma(data[last(y)][2]))]

\* C8: the parser never raises, and returns the mapping year -> count of the
\* rows whose two leading fields convert to integers, the later row winning
\* for a year; the other rows are skipped.
C8_ParserTotal ==
    /\ p_pc # "raised"
    /\ p_pc = "returned" => p_result = ExpectedMap(p_data)

-----------------------------------------------------------------------------
(* Properties of the fetcher (SpecFetcher)                                 *)

FetchEnded == f_pc \in {"returned", "raised"}

\* C10: the URLs are requested in the fixed order plain name, _en name; an
\* error on the first is returned and the second is never requested; the
\* second is requested only when the first returned neither an error nor
\* rows; and when an attempt returns rows the parser's outcome on those rows
\* is the fetcher's, an empty mapping included, with no further request.
C10_FetcherOrder ==
    /\ \A i \in 1..Len(f_requests) : f_requests[i] = Url(f_year, i)
    /\ Len(f_requests) <= 2 /\ Len(f_responses) = Len(f_requests)
    /\ (Len(f_responses) >= 1 /\ f_responses[1].kind = "error") =>
          /\ f_pc = "returned" /\ Len(f_requests) = 1
          /\ f_result = FetchError(f_responses[1].error)
    /\ Len(f_requests) >= 2 =>
          (f_responses[1].kind = "rows" /\ f_responses[1].rows = <<>>)
    /\ \A i \in 1..Len(f_responses) :
          (f_responses[i].kind = "rows" /\ f_responses[i].rows # <<>>) =>
             /\ FetchEnded /\ Len(f_requests) = i
             /\ f_result = _parse_csv_data(f_responses[i].rows)
             /\ (f_pc = "raised") = (f_result.kind = "raise")
    /\ (f_pc = "returned" /\ \A i \in 1..Len(f_responses) : f_responses[i] = HttpRows(<<>>)) =>
          (Len(f_requests) = 2 /\ f_result = ParseOk(EmptyMap))

\* The first URL had no rows, the second had rows none of which parses: two
\* requests in order, and the result is the parser's empty mapping.
C10_Witness ==
    /\ f_pc = "returned" /\ Len(f_requests) = 2
    /\ f_requests[1].name = "_gc-no-of-registered-electors.csv"
    /\ f_requests[2].name = "_gc-no-of-registered-electors_en.csv"
    /\ f_responses[1] = HttpRows(<<>>)
    /\ f_responses[2].rows # <<>>
    /\ f_result = ParseOk(EmptyMap)

====
